---- MODULE Spec2Model ----
(***************************************************************************)
(* Model of the API middleware (cachedRequest, clearApiCache) of the       *)
(* marketing dashboard server: an in-memory Map used as a response cache   *)
(* in front of axios.get, with a bounded retry loop and a backoff timer.   *)
(* Each cachedRequest invocation is an async function: it runs atomically  *)
(* between two awaits, so every action below is one such synchronous run.  *)
(* A second part models the data pipeline of GET /api/marketing-data: the  *)
(* row formatting of the two ad services and mergeAndFormatData.           *)
(***************************************************************************)
EXTENDS Integers, Sequences, FiniteSets, TLC

\* ---------------------------------------------------------------- bounds
MaxTime == 2            \* the clock Date.now() runs over 0..MaxTime
MaxTTL == 2             \* cacheTTL values a caller passes: 0..MaxTTL
MaxRetriesArg == 5      \* maxRetries values a caller passes: 0..MaxRetriesArg
MaxSkew == 1            \* how far the clock may advance between two Date.now() reads
MaxRows == 2            \* rows an ad platform returns for the date range: 0..MaxRows

\* ---------------------------------------------------------------- values
Slots == {"s1", "s2"}                   \* invocations that may overlap
Keys == {<<"g", "a">>, <<"f", "b">>}     \* cache keys, as character sequences
Payloads == {"p1", "p2"}                \* response.data values
NoStatus == 0                           \* error.response?.status is undefined
Statuses == {NoStatus, 400, 404, 429, 500}
TTLs == 0..MaxTTL
RetryArgs == 0..MaxRetriesArg
NoEntry == [none |-> TRUE]              \* cache.has(key) is false
NoError == [status |-> -1, att |-> 0]   \* lastError = null
NoPayload == "none"
DefaultRetryDelay == 1000               \* retryDelay = 1000, in ms
JitterRange == 200                      \* Math.random() * 200
BackoffCap == 30000                     \* the 30000 of Math.min
RetryDelays == {0, DefaultRetryDelay, 16000}    \* retryDelay values a caller passes
Jitters == {0, 100, JitterRange - 1}    \* values of Math.random() * 200, rounded down
NoStats == [totalEntries |-> 0, expiredEntries |-> 0, totalSizeBytes |-> 0,
            oldestEntryAge |-> 0, keys |-> {}]
NoPattern == << >>                      \* keyPattern null / "" (falsy)
Patterns == {NoPattern, <<"a">>, <<"f", "b">>, <<"x">>, <<".">>}
NotMerged == [none |-> TRUE]            \* mergeAndFormatData has not run yet
NoResponse == [status |-> 0, error |-> "none", details |-> {}, data |-> NotMerged,
               warnings |-> {}]         \* nothing sent yet
Services == {"fetchGoogleAdsData", "fetchFacebookAdsData", "fetchFacebookPageData"}
NoCall == [fn |-> "none", pc |-> "idle"]
NoOutcome == [state |-> "none", source |-> "none", mock |-> FALSE, erred |-> FALSE]
RealEnv == [USE_MOCK_DATA |-> FALSE, USE_MOCK_DATA_FALLBACK |-> FALSE, credentials |-> TRUE]

VARIABLES
    cache,      \* the Map: key -> NoEntry or [data, expiry, timestamp]
    now,        \* the value Date.now() returns
    calls,      \* per slot: the locals of one cachedRequest invocation
    cleared,    \* the value the last clearApiCache call returned
    lastOk,     \* history: per key, payload of the last successful response
    stats,      \* the object the last getApiCacheStats call returned
    routePc,            \* server.js: where the /api/marketing-data handler stands
    googleRows,         \* the rows the Google Ads query returns
    facebookRows,       \* response.data.data of the Facebook insights call
    googleAdsData,      \* server.js: the value of fetchGoogleAdsData
    facebookAdsData,    \* server.js: the value of fetchFacebookAdsData
    combinedData,       \* server.js: the value of mergeAndFormatData
    errorDetails,       \* server.js: the platforms whose fetch was caught failing
    response,           \* server.js: what res.status(...).json(...) sent
    env,                \* process.env: USE_MOCK_DATA, USE_MOCK_DATA_FALLBACK, credentials
    svc,                \* the service call in progress and the await it stands at
    returned            \* per service function: how its last call settled

cacheVars == <<cache, now, calls, cleared, lastOk>>
mergeVars == <<routePc, googleRows, facebookRows, googleAdsData, facebookAdsData,
              combinedData, errorDetails, response>>
serviceVars == <<env, svc, returned>>
pipeVars == <<mergeVars, serviceVars>>
sideVars == <<stats, pipeVars>>
vars == <<cacheVars, sideVars>>

IdleCall ==
    [pc |-> "idle", key |-> << >>, ttl |-> 0, maxRetries |-> 0, force |-> FALSE,
     retryDelay |-> 0, delay |-> 0,
     attempt |-> 0, lastError |-> NoError,
     netCalls |-> 0, waits |-> 0, writes |-> 0, hit |-> FALSE, evicted |-> FALSE,
     result |-> NoPayload]

\* -------------------------------------------------- pieces of cachedRequest
\* line 38: if (!forceRefresh && cache.has(cacheKey))
ChecksCache(force, key) == ~force /\ cache[key] # NoEntry

\* the comparison of line 40 turned around
IsLiveInverted(entry, t) == entry.expiry < t

\* the comparison of line 40 made inclusive
IsLiveInclusive(entry, t) == entry.expiry >= t

\* line 40: if (expiry > Date.now())
IsLive(entry, t) == entry.expiry > t

\* the loop test of line 54 off by one
LoopContinuesOffByOne(attempt, maxRetries) == attempt <= maxRetries

\* line 54: while (attempt < maxRetries)
LoopContinues(attempt, maxRetries) == attempt < maxRetries

\* lines 61-65: the object stored; Date.now() is read twice, t1 then t2
NewEntry(data, ttl, t1, t2) == [data |-> data, expiry |-> t1 + ttl, timestamp |-> t2]

\* the range test of line 81 with 400 left out
IsClientErrorAbove400(status) ==
    status # NoStatus /\ status > 400 /\ status < 500 /\ status # 429

\* line 81: if (status && status >= 400 && status < 500 && status !== 429)
IsClientError(status) ==
    status # NoStatus /\ status >= 400 /\ status < 500 /\ status # 429

\* the delay of lines 87-90 without the Math.min
BackoffDelayUncapped(retryDelay, attempt, jitter) ==
    retryDelay * 2 ^ (attempt - 1) + jitter

\* lines 86-90: the delay after the failed attempt number `attempt`
BackoffDelay(retryDelay, attempt, jitter) ==
    IF retryDelay * 2 ^ (attempt - 1) + jitter < BackoffCap
    THEN retryDelay * 2 ^ (attempt - 1) + jitter
    ELSE BackoffCap

\* lines 54-58 with a call joining the request another call has in flight
\* for the same key instead of issuing its own
LoopHeadCoalescing(call) ==
    IF LoopContinues(call.attempt, call.maxRetries)
    THEN IF \E c2 \in Slots : calls[c2].pc = "inflight" /\ calls[c2].key = call.key
         THEN [call EXCEPT !.pc = "inflight"]
         ELSE [call EXCEPT !.pc = "inflight", !.netCalls = @ + 1]
    ELSE [call EXCEPT !.pc = "rejected"]

\* lines 54-58 and 99-101: call axios.get (counted in netCalls), or leave the
\* loop and throw lastError
LoopHead(call) ==
    IF LoopContinues(call.attempt, call.maxRetries)
    THEN [call EXCEPT !.pc = "inflight", !.netCalls = @ + 1]
    ELSE [call EXCEPT !.pc = "rejected"]

\* ---------------------------------------------------------------- actions
Init ==
    /\ cache = [k \in Keys |-> NoEntry]
    /\ now = 0
    /\ calls = [c \in Slots |-> IdleCall]
    /\ cleared = 0
    /\ lastOk = [k \in Keys |-> NoPayload]
    /\ stats = NoStats
    /\ routePc = "google"
    /\ googleRows = << >> /\ facebookRows = << >>
    /\ googleAdsData = << >> /\ facebookAdsData = << >>
    /\ combinedData = NotMerged
    /\ errorDetails = {} /\ response = NoResponse
    /\ env = RealEnv
    /\ svc = NoCall
    /\ returned = [f \in Services |-> NoOutcome]

\* lines 37-58 with a forced refresh deleting the stored entry before it
\* fetches
StartWithDelayDroppingEntry(c, key, ttl, maxRetries, force, retryDelay) ==
    /\ calls[c].pc = "idle"
    /\ LET call == [IdleCall EXCEPT !.key = key, !.ttl = ttl,
                                    !.maxRetries = maxRetries, !.force = force,
                                    !.retryDelay = retryDelay]
       IN IF ChecksCache(force, key)
          THEN IF IsLive(cache[key], now)
               THEN /\ calls' = [calls EXCEPT ![c] =
                            [call EXCEPT !.pc = "returned", !.hit = TRUE,
                                         !.result = cache[key].data]]
                    /\ cache' = cache
               ELSE /\ cache' = [cache EXCEPT ![key] = NoEntry]
                    /\ calls' = [calls EXCEPT ![c] =
                            LoopHead([call EXCEPT !.evicted = TRUE])]
          ELSE /\ cache' = [cache EXCEPT ![key] = NoEntry]
               /\ calls' = [calls EXCEPT ![c] = LoopHead(call)]
    /\ UNCHANGED <<now, cleared, lastOk>>
    /\ UNCHANGED sideVars

\* lines 23-58: the call up to its first await
StartWithDelay(c, key, ttl, maxRetries, force, retryDelay) ==
    /\ calls[c].pc = "idle"
    /\ LET call == [IdleCall EXCEPT !.key = key, !.ttl = ttl,
                                    !.maxRetries = maxRetries, !.force = force,
                                    !.retryDelay = retryDelay]
       IN IF ChecksCache(force, key)
          THEN IF IsLive(cache[key], now)
               THEN /\ calls' = [calls EXCEPT ![c] =
                            [call EXCEPT !.pc = "returned", !.hit = TRUE,
                                         !.result = cache[key].data]]
                    /\ cache' = cache
               ELSE /\ cache' = [cache EXCEPT ![key] = NoEntry]
                    /\ calls' = [calls EXCEPT ![c] =
                            LoopHead([call EXCEPT !.evicted = TRUE])]
          ELSE /\ cache' = cache
               /\ calls' = [calls EXCEPT ![c] = LoopHead(call)]
    /\ UNCHANGED <<now, cleared, lastOk>>
    /\ UNCHANGED sideVars

\* line 29: a call that leaves retryDelay to its default
Start(c, key, ttl, maxRetries, force) ==
    StartWithDelay(c, key, ttl, maxRetries, force, DefaultRetryDelay)

\* lines 60-65 changed to store only when the key has no entry
RespondOkIfAbsent(c, data, d) ==
    /\ calls[c].pc = "inflight"
    /\ now + d <= MaxTime
    /\ LET call == calls[c] IN
       /\ cache' = IF cache[call.key] = NoEntry
                   THEN [cache EXCEPT ![call.key] = NewEntry(data, call.ttl, now, now + d)]
                   ELSE cache
       /\ calls' = [calls EXCEPT ![c] =
                [call EXCEPT !.pc = "returned", !.result = data,
                             !.writes = @ + 1]]
       /\ lastOk' = [lastOk EXCEPT ![call.key] = data]
    /\ now' = now + d
    /\ UNCHANGED cleared
    /\ UNCHANGED sideVars

\* lines 60-65 with every response stored under one key, whatever cacheKey is
RespondOkUnderOneKey(c, data, d) ==
    /\ calls[c].pc = "inflight"
    /\ now + d <= MaxTime
    /\ LET call == calls[c] IN
       /\ cache' = [cache EXCEPT ![<<"g", "a">>] = NewEntry(data, call.ttl, now, now + d)]
       /\ calls' = [calls EXCEPT ![c] =
                [call EXCEPT !.pc = "returned", !.result = data,
                             !.writes = @ + 1]]
       /\ lastOk' = [lastOk EXCEPT ![call.key] = data]
    /\ now' = now + d
    /\ UNCHANGED cleared
    /\ UNCHANGED sideVars

\* lines 58-72: axios.get resolved; the clock advances by d between the two
\* Date.now() reads of the object literal
RespondOk(c, data, d) ==
    /\ calls[c].pc = "inflight"
    /\ now + d <= MaxTime
    /\ LET call == calls[c] IN
       /\ cache' = [cache EXCEPT ![call.key] = NewEntry(data, call.ttl, now, now + d)]
       /\ calls' = [calls EXCEPT ![c] =
                [call EXCEPT !.pc = "returned", !.result = data,
                             !.writes = @ + 1]]
       /\ lastOk' = [lastOk EXCEPT ![call.key] = data]
    /\ now' = now + d
    /\ UNCHANGED cleared
    /\ UNCHANGED sideVars

\* lines 73-95 changed to store an entry for the failed attempt as well
RespondFailCachesError(c, status, jitter) ==
    /\ calls[c].pc = "inflight"
    /\ LET call == calls[c]
           failed == [call EXCEPT !.lastError = [status |-> status, att |-> call.attempt + 1],
                                  !.attempt = @ + 1]
       IN /\ calls' = [calls EXCEPT ![c] =
                IF IsClientError(status)
                THEN [failed EXCEPT !.pc = "rejected"]
                ELSE [failed EXCEPT !.pc = "backoff", !.waits = @ + 1,
                                    !.delay = BackoffDelay(call.retryDelay, failed.attempt, jitter)]]
          /\ cache' = [cache EXCEPT ![call.key] = NewEntry(NoPayload, call.ttl, now, now)]
    /\ UNCHANGED <<now, cleared, lastOk>>
    /\ UNCHANGED sideVars

\* lines 73-95 without the await of line 95: the next attempt starts at once
RespondFailRetriesAtOnce(c, status, jitter) ==
    /\ calls[c].pc = "inflight"
    /\ LET call == calls[c]
           failed == [call EXCEPT !.lastError = [status |-> status, att |-> call.attempt + 1],
                                  !.attempt = @ + 1]
       IN calls' = [calls EXCEPT ![c] =
                IF IsClientError(status)
                THEN [failed EXCEPT !.pc = "rejected"]
                ELSE LoopHead(failed)]
    /\ UNCHANGED <<cache, now, cleared, lastOk>>
    /\ UNCHANGED sideVars

\* lines 73-95 with no wait after the failure of the last permitted attempt
RespondFailNoFinalWait(c, status, jitter) ==
    /\ calls[c].pc = "inflight"
    /\ LET call == calls[c]
           failed == [call EXCEPT !.lastError = [status |-> status, att |-> call.attempt + 1],
                                  !.attempt = @ + 1]
       IN calls' = [calls EXCEPT ![c] =
                IF IsClientError(status) \/ ~LoopContinues(failed.attempt, failed.maxRetries)
                THEN [failed EXCEPT !.pc = "rejected"]
                ELSE [failed EXCEPT !.pc = "backoff", !.waits = @ + 1,
                                    !.delay = BackoffDelay(call.retryDelay, failed.attempt, jitter)]]
    /\ UNCHANGED <<cache, now, cleared, lastOk>>
    /\ UNCHANGED sideVars

\* lines 73-95: axios.get rejected with an error of the given status; the
\* wait that follows lasts `delay` ms
RespondFail(c, status, jitter) ==
    /\ calls[c].pc = "inflight"
    /\ LET call == calls[c]
           failed == [call EXCEPT !.lastError = [status |-> status, att |-> call.attempt + 1],
                                  !.attempt = @ + 1]
       IN calls' = [calls EXCEPT ![c] =
                IF IsClientError(status)
                THEN [failed EXCEPT !.pc = "rejected"]
                ELSE [failed EXCEPT !.pc = "backoff", !.waits = @ + 1,
                                    !.delay = BackoffDelay(call.retryDelay, failed.attempt, jitter)]]
    /\ UNCHANGED <<cache, now, cleared, lastOk>>
    /\ UNCHANGED sideVars

\* line 95 with a timer whose callback never calls resolve
TimerNeverResolves(c) ==
    /\ calls[c].pc = "backoff"
    /\ FALSE
    /\ UNCHANGED vars

\* lines 95-101, 54: the backoff timer fired; loop again or throw lastError
TimerFires(c) ==
    /\ calls[c].pc = "backoff"
    /\ calls' = [calls EXCEPT ![c] = LoopHead(calls[c])]
    /\ UNCHANGED <<cache, now, cleared, lastOk>>
    /\ UNCHANGED sideVars

\* the caller has taken the result (or the error); the slot is free again
Release(c) ==
    /\ calls[c].pc \in {"returned", "rejected"}
    /\ calls' = [calls EXCEPT ![c] = IdleCall]
    /\ UNCHANGED <<cache, now, cleared, lastOk>>
    /\ UNCHANGED sideVars

\* the clock advances
Tick ==
    /\ now < MaxTime
    /\ now' = now + 1
    /\ UNCHANGED <<cache, calls, cleared, lastOk>>
    /\ UNCHANGED sideVars

\* ------------------------------------------------------------ clearApiCache
\* line 121: pattern.test(key), for a pattern of literal characters and the
\* metacharacter "." (any character): the pattern occurs in the key
Matches(pattern, key) ==
    \E i \in 1..(Len(key) - Len(pattern) + 1) :
        \A j \in 1..Len(pattern) :
            pattern[j] = "." \/ pattern[j] = key[i + j - 1]

\* line 111: if (!keyPattern)
NoKeyPattern(pattern) == pattern = NoPattern

StoredKeys == {k \in Keys : cache[k] # NoEntry}

\* lines 112-114 changed to read cache.size after cache.clear()
ClearApiCacheCountsAfter(pattern) ==
    /\ IF NoKeyPattern(pattern)
       THEN /\ cleared' = 0
            /\ cache' = [k \in Keys |-> NoEntry]
       ELSE LET hitKeys == {k \in StoredKeys : Matches(pattern, k)} IN
            /\ cleared' = Cardinality(hitKeys)
            /\ cache' = [k \in Keys |-> IF k \in hitKeys THEN NoEntry ELSE cache[k]]
    /\ UNCHANGED <<now, calls, lastOk>>
    /\ UNCHANGED sideVars

\* lines 120-125 changed to count every key visited, matching or not
ClearApiCacheCountsVisited(pattern) ==
    /\ IF NoKeyPattern(pattern)
       THEN /\ cleared' = Cardinality(StoredKeys)
            /\ cache' = [k \in Keys |-> NoEntry]
       ELSE LET hitKeys == {k \in StoredKeys : Matches(pattern, k)} IN
            /\ cleared' = Cardinality(StoredKeys)
            /\ cache' = [k \in Keys |-> IF k \in hitKeys THEN NoEntry ELSE cache[k]]
    /\ UNCHANGED <<now, calls, lastOk>>
    /\ UNCHANGED sideVars

\* lines 110-128
ClearApiCache(pattern) ==
    /\ IF NoKeyPattern(pattern)
       THEN /\ cleared' = Cardinality(StoredKeys)
            /\ cache' = [k \in Keys |-> NoEntry]
       ELSE LET hitKeys == {k \in StoredKeys : Matches(pattern, k)} IN
            /\ cleared' = Cardinality(hitKeys)
            /\ cache' = [k \in Keys |-> IF k \in hitKeys THEN NoEntry ELSE cache[k]]
    /\ UNCHANGED <<now, calls, lastOk>>
    /\ UNCHANGED sideVars

\* --------------------------------------------------------- getApiCacheStats
\* line 146: JSON.stringify(value.data).length, the payload being a string
JsonLength(data) == Len(data) + 2

RECURSIVE SumJsonLength(_)
SumJsonLength(ks) ==
    IF ks = {} THEN 0
    ELSE LET k == CHOOSE x \in ks : TRUE
         IN JsonLength(cache[k].data) + SumJsonLength(ks \ {k})

\* lines 139, 148-150: the smallest of now and the entries' timestamps
OldestTimestamp ==
    CHOOSE t \in {now} \cup {cache[k].timestamp : k \in StoredKeys} :
        \A k \in StoredKeys : t <= now /\ t <= cache[k].timestamp

\* line 142: if (value.expiry < now)
CountsAsExpired(entry, t) == entry.expiry < t

\* lines 135-160, changed to delete the expired entries it meets
GetApiCacheStatsEvicting ==
    /\ stats' = [totalEntries |-> Cardinality({k \in StoredKeys : ~CountsAsExpired(cache[k], now)}),
                 expiredEntries |-> Cardinality({k \in StoredKeys : CountsAsExpired(cache[k], now)}),
                 totalSizeBytes |-> SumJsonLength(StoredKeys),
                 oldestEntryAge |-> now - OldestTimestamp,
                 keys |-> {k \in StoredKeys : ~CountsAsExpired(cache[k], now)}]
    /\ cache' = [k \in Keys |->
                    IF k \in StoredKeys /\ CountsAsExpired(cache[k], now)
                    THEN NoEntry ELSE cache[k]]
    /\ UNCHANGED <<now, calls, cleared, lastOk>>
    /\ UNCHANGED pipeVars

\* lines 135-160
GetApiCacheStats ==
    /\ stats' = [totalEntries |-> Cardinality(StoredKeys),
                 expiredEntries |-> Cardinality({k \in StoredKeys : CountsAsExpired(cache[k], now)}),
                 totalSizeBytes |-> SumJsonLength(StoredKeys),
                 oldestEntryAge |-> now - OldestTimestamp,
                 keys |-> StoredKeys]
    /\ UNCHANGED cacheVars
    /\ UNCHANGED pipeVars


\* ------------------------------------------------- row formatting (services)
\* Text is a sequence of one-character strings, numbers are integers, money
\* is counted in cents.
Digits == <<"0", "1", "2", "3", "4", "5", "6", "7", "8", "9">>
IsDigit(ch) == \E i \in 1..10 : Digits[i] = ch
DigitValue(ch) == (CHOOSE i \in 1..10 : Digits[i] = ch) - 1

\* Number.prototype.toString() of a non-negative integer
RECURSIVE NumToString(_)
NumToString(n) ==
    IF n < 10 THEN <<Digits[n + 1]>>
    ELSE NumToString(n \div 10) \o <<Digits[(n % 10) + 1]>>

\* String.prototype.slice(-3)
SliceLast3(s) == IF Len(s) <= 3 THEN s ELSE SubSeq(s, Len(s) - 2, Len(s))

\* (cents / 100).toFixed(2)
ToFixed2(cents) ==
    NumToString(cents \div 100) \o <<".">>
        \o <<Digits[((cents % 100) \div 10) + 1], Digits[(cents % 10) + 1]>>

\* the dates an upstream row may carry, and two values that are no date
RawDates == {"2025-01-30", "2025-01-31", "2025-02-01"}
GarbledDate == "garbled"
MissingDate == "undefined"
InvalidDate == "Invalid Date"

\* new Date(d).toLocaleDateString('en-US', {weekday, month, day, year}):
\* an unparseable or missing date gives "Invalid Date", it does not throw
FormatDate(d) ==
    IF d = "2025-01-30" THEN "Thu, Jan 30, 2025"
    ELSE IF d = "2025-01-31" THEN "Fri, Jan 31, 2025"
    ELSE IF d = "2025-02-01" THEN "Sat, Feb 1, 2025"
    ELSE InvalidDate

\* impressions > 999 ? Math.floor(impressions / 1000) + ',' + slice(-3) : toString()
FormatImpressions(impressions) ==
    IF impressions > 999
    THEN NumToString(impressions \div 1000) \o <<",">> \o SliceLast3(NumToString(impressions))
    ELSE NumToString(impressions)

\* one upstream row: date, clicks, impressions, cost and cost per click
RawRow(d, clicks, impressions, cost, cpc) ==
    [date |-> d, clicks |-> clicks, impressions |-> impressions,
     cost |-> cost, cpc |-> cpc]

GoogleRowSet ==
    { RawRow("2025-01-30", 10, 3158, 1255, 42),
      RawRow("2025-02-01", 45, 1234567, 1884, 42),
      RawRow("2025-01-30", 7, 500, 300, 43),
      RawRow(GarbledDate, 3, 120, 100, 33) }

FacebookRowSet ==
    { RawRow("2025-01-30", 5, 1005, 250, 50),
      RawRow("2025-01-31", 12, 2146000000, 1200, 100),
      RawRow("2025-01-31", 0, 999, 99, 0),
      RawRow(MissingDate, 2, 40, 60, 30) }

\* the arrays of at most MaxRows rows over a row set
SeriesOver(rows) == UNION {[1..n -> rows] : n \in 0..MaxRows}

\* the record the services build for one row
FormatRow(row) ==
    [Date |-> FormatDate(row.date),
     Clicks |-> NumToString(row.clicks),
     Impressions |-> FormatImpressions(row.impressions),
     Avg_CPC |-> <<"$">> \o ToFixed2(row.cpc),
     Cost |-> <<"$">> \o ToFixed2(row.cost)]

FormatRows(rows) == [i \in 1..Len(rows) |-> FormatRow(rows[i])]

\* ------------------------------------------ mergeAndFormatData (dataFormatter)
\* dataByDate, a Map, is the sequence of its values in insertion order;
\* the key of a value is its Date.
MapHas(m, key) == \E i \in 1..Len(m) : m[i].Date = key
MapIndex(m, key) == CHOOSE i \in 1..Len(m) : m[i].Date = key
MapSet(m, key, value) ==
    IF MapHas(m, key) THEN [m EXCEPT ![MapIndex(m, key)] = value]
    ELSE Append(m, value)

ZeroCount == <<"0">>                        \* '0'
ZeroMoney == <<"$", "0", ".", "0", "0">>    \* '$0.00'

\* lines 14-24
GoogleEntry(row) ==
    [Date |-> row.Date,
     Google_Clicks |-> row.Clicks,
     Google_Impressions |-> row.Impressions,
     Google_CPC |-> row.Avg_CPC,
     Google_Cost |-> row.Cost,
     Facebook_Clicks |-> ZeroCount,
     Facebook_Impressions |-> ZeroCount,
     Facebook_CPC |-> ZeroMoney,
     Facebook_Cost |-> ZeroMoney]

\* lines 38-48
FacebookEntry(row) ==
    [Date |-> row.Date,
     Google_Clicks |-> ZeroCount,
     Google_Impressions |-> ZeroCount,
     Google_CPC |-> ZeroMoney,
     Google_Cost |-> ZeroMoney,
     Facebook_Clicks |-> row.Clicks,
     Facebook_Impressions |-> row.Impressions,
     Facebook_CPC |-> row.Avg_CPC,
     Facebook_Cost |-> row.Cost]

\* lines 31-35
UpdateExisting(existingData, row) ==
    [existingData EXCEPT !.Facebook_Clicks = row.Clicks,
                         !.Facebook_Impressions = row.Impressions,
                         !.Facebook_CPC = row.Avg_CPC,
                         !.Facebook_Cost = row.Cost]

\* lines 13-25 with a has() test that keeps the entry a date already has
SetGoogleRowKeepingFirst(m, row) ==
    IF MapHas(m, row.Date) THEN m ELSE MapSet(m, row.Date, GoogleEntry(row))

\* line 13-25: the body of googleData.forEach
SetGoogleRow(m, row) == MapSet(m, row.Date, GoogleEntry(row))

\* lines 28-50 without the has() test: every Facebook row makes a new entry
SetFacebookRowAppending(m, row) == Append(m, FacebookEntry(row))

\* lines 28-50 with the update branch replacing the entry it finds
SetFacebookRowReplacing(m, row) == MapSet(m, row.Date, FacebookEntry(row))

\* lines 28-50: the body of facebookData.forEach
SetFacebookRow(m, row) ==
    IF MapHas(m, row.Date)
    THEN MapSet(m, row.Date, UpdateExisting(m[MapIndex(m, row.Date)], row))
    ELSE MapSet(m, row.Date, FacebookEntry(row))

RECURSIVE ForEachGoogle(_, _)
ForEachGoogle(m, rows) ==
    IF rows = << >> THEN m
    ELSE ForEachGoogle(SetGoogleRow(m, Head(rows)), Tail(rows))

RECURSIVE ForEachFacebook(_, _)
ForEachFacebook(m, rows) ==
    IF rows = << >> THEN m
    ELSE ForEachFacebook(SetFacebookRow(m, Head(rows)), Tail(rows))

\* lines 10-50
DataByDate(googleData, facebookData) ==
    ForEachFacebook(ForEachGoogle(<< >>, googleData), facebookData)

\* NaN, kept apart from every count, amount and day number (all >= 0)
NotANumber == -1

\* new Date(text).getTime(), in days; NaN for a text that is no date
DateTime(text) ==
    IF text = "Thu, Jan 30, 2025" THEN 30
    ELSE IF text = "Fri, Jan 31, 2025" THEN 31
    ELSE IF text = "Sat, Feb 1, 2025" THEN 32
    ELSE NotANumber

\* line 54: (a, b) => new Date(a.Date) - new Date(b.Date); sort() reads a
\* NaN result as 0
CompareDates(a, b) ==
    IF DateTime(a.Date) = NotANumber \/ DateTime(b.Date) = NotANumber THEN 0
    ELSE DateTime(a.Date) - DateTime(b.Date)

\* a comparator sort() can rely on: "compares equal" is transitive
ConsistentComparator(data) ==
    \A i, j, k \in 1..Len(data) :
        (CompareDates(data[i], data[j]) = 0 /\ CompareDates(data[j], data[k]) = 0)
            => CompareDates(data[i], data[k]) = 0

Orderings(n) == {p \in [1..n -> 1..n] : \A i, j \in 1..n : p[i] = p[j] => i = j}

\* line 53-54 without the sort
SortedByDateUnsorted(data) == {data}

\* lines 53-54: Array.prototype.sort is stable; with a comparator that is
\* not consistent the order it leaves is implementation-defined
SortedByDate(data) ==
    LET n == Len(data)
        Stable(p) ==
            \A i, j \in 1..n :
                i < j =>
                    \/ CompareDates(data[p[i]], data[p[j]]) < 0
                    \/ CompareDates(data[p[i]], data[p[j]]) = 0 /\ p[i] < p[j]
    IN  IF ConsistentComparator(data)
        THEN {[i \in 1..n |-> data[p[i]]] : p \in {q \in Orderings(n) : Stable(q)}}
        ELSE {[i \in 1..n |-> data[p[i]]] : p \in Orderings(n)}

\* String.prototype.replace(ch, ''): only the first occurrence goes
ReplaceNone(s, ch) == s
ReplaceFirst(s, ch) ==
    IF \E i \in 1..Len(s) : s[i] = ch
    THEN LET i == CHOOSE x \in 1..Len(s) : s[x] = ch /\ \A y \in 1..(x - 1) : s[y] # ch
         IN  SubSeq(s, 1, i - 1) \o SubSeq(s, i + 1, Len(s))
    ELSE s

\* the longest prefix of s made of digits
RECURSIVE LeadingDigits(_)
LeadingDigits(s) ==
    IF s = << >> \/ ~IsDigit(Head(s)) THEN << >>
    ELSE <<Head(s)>> \o LeadingDigits(Tail(s))

RECURSIVE DigitsValue(_)
DigitsValue(ds) ==
    IF ds = << >> THEN 0
    ELSE DigitsValue(SubSeq(ds, 1, Len(ds) - 1)) * 10 + DigitValue(ds[Len(ds)])

\* parseInt(s): the leading digits, NaN if there is none
ParseInt(s) ==
    IF LeadingDigits(s) = << >> THEN NotANumber ELSE DigitsValue(LeadingDigits(s))

\* parseFloat(s), in cents: leading digits, then '.' and the digits after it
ParseFloat(s) ==
    LET whole == LeadingDigits(s)
        rest == SubSeq(s, Len(whole) + 1, Len(s))
        frac == IF rest # << >> /\ Head(rest) = "." THEN LeadingDigits(Tail(rest)) ELSE << >>
        tenths == IF Len(frac) >= 1 THEN DigitValue(frac[1]) ELSE 0
        hundredths == IF Len(frac) >= 2 THEN DigitValue(frac[2]) ELSE 0
    IN  IF whole = << >> THEN NotANumber
        ELSE DigitsValue(whole) * 100 + tenths * 10 + hundredths

\* x || 0
OrZero(x) == IF x = NotANumber THEN 0 ELSE x

RECURSIVE SumSeq(_)
SumSeq(s) == IF s = << >> THEN 0 ELSE Head(s) + SumSeq(Tail(s))

\* lines 73-98
CalculateTotals(data) ==
    LET days == 1..Len(data)
        t == [Google_Clicks |->
                SumSeq([i \in days |-> OrZero(ParseInt(data[i].Google_Clicks))]),
              Google_Impressions |->
                SumSeq([i \in days |->
                    OrZero(ParseInt(ReplaceFirst(data[i].Google_Impressions, ",")))]),
              Google_Cost |->
                SumSeq([i \in days |->
                    OrZero(ParseFloat(ReplaceFirst(data[i].Google_Cost, "$")))]),
              Facebook_Clicks |->
                SumSeq([i \in days |-> OrZero(ParseInt(data[i].Facebook_Clicks))]),
              Facebook_Impressions |->
                SumSeq([i \in days |->
                    OrZero(ParseInt(ReplaceFirst(data[i].Facebook_Impressions, ",")))]),
              Facebook_Cost |->
                SumSeq([i \in days |->
                    OrZero(ParseFloat(ReplaceFirst(data[i].Facebook_Cost, "$")))])]
    IN  [Google_Clicks |-> t.Google_Clicks,
         Google_Impressions |-> t.Google_Impressions,
         Google_Cost |-> t.Google_Cost,
         Facebook_Clicks |-> t.Facebook_Clicks,
         Facebook_Impressions |-> t.Facebook_Impressions,
         Facebook_Cost |-> t.Facebook_Cost,
         Total_Clicks |-> t.Google_Clicks + t.Facebook_Clicks,
         Total_Impressions |-> t.Google_Impressions + t.Facebook_Impressions,
         Total_Cost |-> t.Google_Cost + t.Facebook_Cost]

NaNText == <<"N", "a", "N">>
InfinityText == <<"I", "n", "f", "i", "n", "i", "t", "y">>

\* a / b rounded to the nearest integer
RoundDiv(a, b) == IF 2 * (a % b) >= b THEN (a \div b) + 1 ELSE a \div b

\* (a / b).toFixed(2) for a given in hundredths: 0/0 is NaN, x/0 is Infinity
QuotientToFixed2(a, b) ==
    IF b = 0 THEN (IF a = 0 THEN NaNText ELSE InfinityText)
    ELSE ToFixed2(RoundDiv(a, b))

\* lines 106-117
CalculateMetrics(totals) ==
    [Google_CTR |->
        QuotientToFixed2(totals.Google_Clicks * 10000, totals.Google_Impressions) \o <<"%">>,
     Google_Avg_CPC |->
        <<"$">> \o QuotientToFixed2(totals.Google_Cost, totals.Google_Clicks),
     Facebook_CTR |->
        QuotientToFixed2(totals.Facebook_Clicks * 10000, totals.Facebook_Impressions) \o <<"%">>,
     Facebook_Avg_CPC |->
        <<"$">> \o QuotientToFixed2(totals.Facebook_Cost, totals.Facebook_Clicks),
     Overall_CTR |->
        QuotientToFixed2(totals.Total_Clicks * 10000, totals.Total_Impressions) \o <<"%">>,
     Overall_Avg_CPC |->
        <<"$">> \o QuotientToFixed2(totals.Total_Cost, totals.Total_Clicks)]

\* part_007 lines 140-165: the Google Ads query returned, its rows are formatted
FormatGoogleAdsRows ==
    /\ routePc = "google"
    /\ googleAdsData' = FormatRows(googleRows)
    /\ routePc' = "facebook"
    /\ UNCHANGED <<googleRows, facebookRows, facebookAdsData, combinedData, errorDetails, response>>
    /\ UNCHANGED <<cacheVars, stats, serviceVars>>

\* facebookService.js lines 107-157: the insights call returned, its rows
\* are formatted; server.js awaits it after the Google Ads fetch
FormatFacebookAdsRows ==
    /\ routePc = "facebook"
    /\ facebookAdsData' = FormatRows(facebookRows)
    /\ routePc' = "merge"
    /\ UNCHANGED <<googleRows, facebookRows, googleAdsData, combinedData, errorDetails, response>>
    /\ UNCHANGED <<cacheVars, stats, serviceVars>>

\* dataFormatter.js lines 8-65, called at server.js line 151
MergeAndFormatData ==
    /\ routePc = "merge"
    /\ routePc' = "done"
    /\ \E sorted \in SortedByDate(DataByDate(googleAdsData, facebookAdsData)) :
          combinedData' = [dailyData |-> sorted,
                           totals |-> CalculateTotals(sorted),
                           metrics |-> CalculateMetrics(CalculateTotals(sorted))]
    /\ UNCHANGED <<googleRows, facebookRows, googleAdsData, facebookAdsData, errorDetails, response>>
    /\ UNCHANGED <<cacheVars, stats, serviceVars>>

\* --------------------------------------------- the three service functions
\* How a call settles: fulfilled or rejected; where a fulfilled value comes
\* from (the platform, a generateMock... function, or the literal record of
\* facebookService.js lines 295-306); whether the value has mock: true; and
\* whether the request for the real data failed during the call.
Fulfilled(source, flag, erred) ==
    [state |-> "fulfilled", source |-> source, mock |-> flag, erred |-> erred]
Rejected == [state |-> "rejected", source |-> "none", mock |-> FALSE, erred |-> TRUE]

\* part_007 lines 98-101 and 198-201: return generateMockGoogleAdsData(...)
GoogleMock(erred) == Fulfilled("mock", FALSE, erred)
\* facebookService.js lines 16-18, 163-165, 188-190, 314-316:
\* return { ...mockData, mock: true }
FacebookMock(erred) == Fulfilled("mock", TRUE, erred)

Settle(fn, outcome) ==
    /\ returned' = [returned EXCEPT ![fn] = outcome]
    /\ svc' = NoCall

\* part_007 lines 194-205
GoogleCatch == IF env.USE_MOCK_DATA_FALLBACK THEN GoogleMock(TRUE) ELSE Rejected
\* facebookService.js lines 158-172 and 309-324
FacebookCatch == IF env.USE_MOCK_DATA_FALLBACK THEN FacebookMock(TRUE) ELSE Rejected

\* part_007 lines 95-131: up to await customer.query(query)
CallGoogleAds ==
    /\ svc = NoCall
    /\ IF env.USE_MOCK_DATA THEN Settle("fetchGoogleAdsData", GoogleMock(FALSE))
       ELSE IF ~env.credentials THEN Settle("fetchGoogleAdsData", GoogleCatch)
       ELSE /\ svc' = [fn |-> "fetchGoogleAdsData", pc |-> "query"]
            /\ UNCHANGED returned
    /\ UNCHANGED <<env, cacheVars, stats, mergeVars>>

\* part_007 lines 131-166 (rows returned) and 166-193 (query threw)
GoogleQuerySettles(ok) ==
    /\ svc = [fn |-> "fetchGoogleAdsData", pc |-> "query"]
    /\ IF ok THEN Settle("fetchGoogleAdsData", Fulfilled("real", FALSE, FALSE))
       ELSE Settle("fetchGoogleAdsData", GoogleCatch)
    /\ UNCHANGED <<env, cacheVars, stats, mergeVars>>

\* facebookService.js lines 12-57: up to the await of the account status
CallFacebookAds ==
    /\ svc = NoCall
    /\ IF env.USE_MOCK_DATA THEN Settle("fetchFacebookAdsData", FacebookMock(FALSE))
       ELSE IF ~env.credentials THEN Settle("fetchFacebookAdsData", FacebookCatch)
       ELSE /\ svc' = [fn |-> "fetchFacebookAdsData", pc |-> "account"]
            /\ UNCHANGED returned
    /\ UNCHANGED <<env, cacheVars, stats, mergeVars>>

\* lines 50-67: an inactive account ends the call with [], a failed status
\* request is logged and the call goes on
AccountStatusSettles(ok, active) ==
    /\ svc = [fn |-> "fetchFacebookAdsData", pc |-> "account"]
    /\ IF ok /\ ~active THEN Settle("fetchFacebookAdsData", Fulfilled("real", FALSE, FALSE))
       ELSE /\ svc' = [fn |-> "fetchFacebookAdsData", pc |-> "insights"]
            /\ UNCHANGED returned
    /\ UNCHANGED <<env, cacheVars, stats, mergeVars>>

\* lines 86-157 (insights returned, with or without a body) and 158-172
InsightsSettles(ok, hasBody) ==
    /\ svc = [fn |-> "fetchFacebookAdsData", pc |-> "insights"]
    /\ IF ok /\ hasBody THEN Settle("fetchFacebookAdsData", Fulfilled("real", FALSE, FALSE))
       ELSE Settle("fetchFacebookAdsData", FacebookCatch)
    /\ UNCHANGED <<env, cacheVars, stats, mergeVars>>

\* lines 184-220: up to the await of /me/accounts
CallFacebookPage(hasPageId) ==
    /\ svc = NoCall
    /\ IF env.USE_MOCK_DATA THEN Settle("fetchFacebookPageData", FacebookMock(FALSE))
       ELSE IF ~env.credentials \/ ~hasPageId THEN Settle("fetchFacebookPageData", FacebookCatch)
       ELSE /\ svc' = [fn |-> "fetchFacebookPageData", pc |-> "pages"]
            /\ UNCHANGED returned
    /\ UNCHANGED <<env, cacheVars, stats, mergeVars>>

\* lines 210-247: whatever /me/accounts answers, the call goes on
PagesSettles ==
    /\ svc = [fn |-> "fetchFacebookPageData", pc |-> "pages"]
    /\ svc' = [fn |-> "fetchFacebookPageData", pc |-> "pageInfo"]
    /\ UNCHANGED <<returned, env, cacheVars, stats, mergeVars>>

\* lines 251-290 (page info returned) and 291-307 (it failed: a record
\* with zero counts and an error text is returned)
PageInfoSettles(ok) ==
    /\ svc = [fn |-> "fetchFacebookPageData", pc |-> "pageInfo"]
    /\ IF ok THEN Settle("fetchFacebookPageData", Fulfilled("real", FALSE, FALSE))
       ELSE Settle("fetchFacebookPageData", Fulfilled("placeholder", FALSE, TRUE))
    /\ UNCHANGED <<env, cacheVars, stats, mergeVars>>

\* ------------------------------------------ GET /api/marketing-data (server.js)
\* what a generateMock... function returns: rows in the services' format
MockRows == FormatRows(<<RawRow("2025-01-31", 30, 1500, 2700, 90)>>)
\* facebookService.js lines 17-18: { ...mockData, mock: true } is an object
\* with the rows under the keys "0", "1", ... and no array method
MockObject == [mock |-> TRUE]

\* the value a settled service call hands to the route
ValueOf(outcome, realRows, mockValue) ==
    IF outcome.source = "mock" THEN mockValue ELSE FormatRows(realRows)

\* dataFormatter.js lines 8-65: the values mergeAndFormatData may return
MergeResults(googleData, facebookData) ==
    {[dailyData |-> sorted,
      totals |-> CalculateTotals(sorted),
      metrics |-> CalculateMetrics(CalculateTotals(sorted))] :
        sorted \in SortedByDate(DataByDate(googleData, facebookData))}

\* server.js lines 109-111: startDate or endDate is missing
RouteBadRequest ==
    /\ routePc = "google" /\ svc = NoCall
    /\ returned["fetchGoogleAdsData"] = NoOutcome
    /\ response' = [NoResponse EXCEPT !.status = 400, !.error = "dates required"]
    /\ routePc' = "responded"
    /\ UNCHANGED <<googleRows, facebookRows, googleAdsData, facebookAdsData,
                   combinedData, errorDetails>>
    /\ UNCHANGED <<cacheVars, stats, serviceVars>>

\* lines 119-130 with the catch block rethrowing: the handler's outer catch
\* answers 500 and the Facebook fetch is never made
RouteGoogleSettledRethrowing ==
    /\ routePc = "google" /\ svc = NoCall
    /\ returned["fetchGoogleAdsData"] # NoOutcome
    /\ IF returned["fetchGoogleAdsData"].state = "rejected"
       THEN /\ response' = [NoResponse EXCEPT !.status = 500, !.error = "exception"]
            /\ routePc' = "responded"
            /\ UNCHANGED <<googleAdsData, errorDetails>>
       ELSE /\ googleAdsData' = ValueOf(returned["fetchGoogleAdsData"], googleRows, MockRows)
            /\ routePc' = "facebook"
            /\ UNCHANGED <<errorDetails, response>>
    /\ UNCHANGED <<googleRows, facebookRows, facebookAdsData, combinedData>>
    /\ UNCHANGED <<cacheVars, stats, serviceVars>>

\* lines 119-130: await fetchGoogleAdsData settled
RouteGoogleSettled ==
    /\ routePc = "google" /\ svc = NoCall
    /\ returned["fetchGoogleAdsData"] # NoOutcome
    /\ IF returned["fetchGoogleAdsData"].state = "rejected"
       THEN /\ errorDetails' = errorDetails \cup {"googleAds"}
            /\ UNCHANGED googleAdsData
       ELSE /\ googleAdsData' = ValueOf(returned["fetchGoogleAdsData"], googleRows, MockRows)
            /\ UNCHANGED errorDetails
    /\ routePc' = "facebook"
    /\ UNCHANGED <<googleRows, facebookRows, facebookAdsData, combinedData, response>>
    /\ UNCHANGED <<cacheVars, stats, serviceVars>>

\* lines 132-141: await fetchFacebookAdsData settled
RouteFacebookSettled ==
    /\ routePc = "facebook" /\ svc = NoCall
    /\ returned["fetchFacebookAdsData"] # NoOutcome
    /\ IF returned["fetchFacebookAdsData"].state = "rejected"
       THEN /\ errorDetails' = errorDetails \cup {"facebookAds"}
            /\ UNCHANGED facebookAdsData
       ELSE /\ facebookAdsData' =
                  ValueOf(returned["fetchFacebookAdsData"], facebookRows, MockObject)
            /\ UNCHANGED errorDetails
    /\ routePc' = "respond"
    /\ UNCHANGED <<googleRows, facebookRows, googleAdsData, combinedData, response>>
    /\ UNCHANGED <<cacheVars, stats, serviceVars>>

\* lines 143-168: both failed, or merge and answer; facebookData.forEach
\* throws on the mock object and the outer catch answers 500
RouteRespond ==
    /\ routePc = "respond"
    /\ IF Cardinality(errorDetails) = 2
       THEN /\ response' = [NoResponse EXCEPT !.status = 500, !.error = "both services",
                                              !.details = errorDetails]
            /\ UNCHANGED combinedData
       ELSE IF returned["fetchFacebookAdsData"].source = "mock"
       THEN /\ response' = [NoResponse EXCEPT !.status = 500, !.error = "exception"]
            /\ UNCHANGED combinedData
       ELSE \E merged \in MergeResults(googleAdsData, facebookAdsData) :
            /\ combinedData' = merged
            /\ response' = [NoResponse EXCEPT !.status = 200, !.data = merged,
                                              !.warnings = errorDetails]
    /\ routePc' = "responded"
    /\ UNCHANGED <<googleRows, facebookRows, googleAdsData, facebookAdsData, errorDetails>>
    /\ UNCHANGED <<cacheVars, stats, serviceVars>>

\* ------------------------------------------------------- specifications
\* One invocation at a time on one key, every maxRetries value and every
\* error status: the retry loop.
OneSlot == {"s1"}
OneKey == {<<"g", "a">>}
NextRetry ==
    \/ \E c \in OneSlot, key \in OneKey, r \in RetryArgs, f \in BOOLEAN :
            Start(c, key, 1, r, f)
    \/ \E c \in OneSlot, data \in Payloads : RespondOk(c, data, 0)
    \/ \E c \in OneSlot, s \in Statuses : RespondFail(c, s, 0)
    \/ \E c \in OneSlot : TimerFires(c)
    \/ \E c \in OneSlot : Release(c)
    \/ Tick

SpecRetry == Init /\ [][NextRetry]_vars

\* line 58: a network attempt that is pending settles, one way or the other
AttemptSettles ==
    \E c \in OneSlot :
        \/ \E data \in Payloads : RespondOk(c, data, 0)
        \/ \E s \in Statuses : RespondFail(c, s, 0)

\* line 95: a backoff timer that is pending fires
SomeTimerFires == \E c \in OneSlot : TimerFires(c)

\* The retry loop when the network and the timers keep their promises: no
\* attempt stays pending for ever and no armed timer stays armed for ever.
SpecRetryLive ==
    Init /\ [][NextRetry]_vars /\ WF_vars(AttemptSettles) /\ WF_vars(SomeTimerFires)

\* One invocation at a time on one key, every retryDelay and every jitter:
\* the length of the backoff waits.
NextBackoff ==
    \/ \E c \in OneSlot, key \in OneKey, r \in RetryArgs, rd \in RetryDelays :
            StartWithDelay(c, key, 1, r, TRUE, rd)
    \/ \E c \in OneSlot, data \in Payloads : RespondOk(c, data, 0)
    \/ \E c \in OneSlot, s \in {404, 429, 500}, j \in Jitters : RespondFail(c, s, j)
    \/ \E c \in OneSlot : TimerFires(c)
    \/ \E c \in OneSlot : Release(c)

SpecBackoff == Init /\ [][NextBackoff]_vars

\* One invocation at a time, every ttl and every clock advance between the
\* two clock reads of a store, eviction by every pattern: the cache's entries.
NextTime ==
    \/ \E c \in OneSlot, key \in Keys, ttl \in TTLs, f \in BOOLEAN :
            Start(c, key, ttl, 1, f)
    \/ \E c \in OneSlot, data \in Payloads, d \in 0..MaxSkew : RespondOk(c, data, d)
    \/ \E c \in OneSlot : RespondFail(c, 500, 0)
    \/ \E c \in OneSlot : TimerFires(c)
    \/ \E c \in OneSlot : Release(c)
    \/ Tick
    \/ \E p \in Patterns : ClearApiCache(p)

SpecTime == Init /\ [][NextTime]_vars

\* One invocation at a time with statistics read at any moment: what
\* getApiCacheStats reports about stored and expired entries.
NextStats ==
    \/ \E c \in OneSlot, key \in Keys, ttl \in TTLs : Start(c, key, ttl, 1, FALSE)
    \/ \E c \in OneSlot, data \in Payloads : RespondOk(c, data, 0)
    \/ \E c \in OneSlot : Release(c)
    \/ Tick
    \/ ClearApiCache(NoPattern)
    \/ GetApiCacheStats

SpecStats == Init /\ [][NextStats]_vars

\* One request to /api/marketing-data in which both platforms answer, for
\* every pair of row arrays the platforms may return.
InitMerge ==
    /\ cache = [k \in Keys |-> NoEntry]
    /\ now = 0
    /\ calls = [c \in Slots |-> IdleCall]
    /\ cleared = 0
    /\ lastOk = [k \in Keys |-> NoPayload]
    /\ stats = NoStats
    /\ googleRows \in SeriesOver(GoogleRowSet)
    /\ facebookRows \in SeriesOver(FacebookRowSet)
    /\ routePc = "google"
    /\ googleAdsData = << >> /\ facebookAdsData = << >>
    /\ combinedData = NotMerged
    /\ errorDetails = {} /\ response = NoResponse
    /\ env = RealEnv
    /\ svc = NoCall
    /\ returned = [f \in Services |-> NoOutcome]

NextMerge ==
    \/ FormatGoogleAdsRows
    \/ FormatFacebookAdsRows
    \/ MergeAndFormatData

SpecMerge == InitMerge /\ [][NextMerge]_vars

\* The three service functions called one after another, under every
\* setting of the two mock switches, with and without credentials.
InitService ==
    /\ cache = [k \in Keys |-> NoEntry]
    /\ now = 0
    /\ calls = [c \in Slots |-> IdleCall]
    /\ cleared = 0
    /\ lastOk = [k \in Keys |-> NoPayload]
    /\ stats = NoStats
    /\ routePc = "google"
    /\ googleRows = << >> /\ facebookRows = << >>
    /\ googleAdsData = << >> /\ facebookAdsData = << >>
    /\ combinedData = NotMerged
    /\ errorDetails = {} /\ response = NoResponse
    /\ env \in [USE_MOCK_DATA : BOOLEAN, USE_MOCK_DATA_FALLBACK : BOOLEAN,
                credentials : BOOLEAN]
    /\ svc = NoCall
    /\ returned = [f \in Services |-> NoOutcome]

NextService ==
    \/ CallGoogleAds
    \/ \E ok \in BOOLEAN : GoogleQuerySettles(ok)
    \/ CallFacebookAds
    \/ \E ok, active \in BOOLEAN : AccountStatusSettles(ok, active)
    \/ \E ok, hasBody \in BOOLEAN : InsightsSettles(ok, hasBody)
    \/ \E hasPageId \in BOOLEAN : CallFacebookPage(hasPageId)
    \/ PagesSettles
    \/ \E ok \in BOOLEAN : PageInfoSettles(ok)

SpecService == InitService /\ [][NextService]_vars

\* One request to /api/marketing-data under every setting of the mock
\* switches and every outcome of the platforms' requests.
InitRoute ==
    /\ cache = [k \in Keys |-> NoEntry]
    /\ now = 0
    /\ calls = [c \in Slots |-> IdleCall]
    /\ cleared = 0
    /\ lastOk = [k \in Keys |-> NoPayload]
    /\ stats = NoStats
    /\ routePc = "google"
    /\ googleRows \in {<< >>, <<RawRow("2025-01-30", 10, 3158, 1255, 42)>>}
    /\ facebookRows \in {<< >>, <<RawRow("2025-01-30", 5, 1005, 250, 50)>>}
    /\ googleAdsData = << >> /\ facebookAdsData = << >>
    /\ combinedData = NotMerged
    /\ errorDetails = {} /\ response = NoResponse
    /\ env \in [USE_MOCK_DATA : BOOLEAN, USE_MOCK_DATA_FALLBACK : BOOLEAN,
                credentials : BOOLEAN]
    /\ svc = NoCall
    /\ returned = [f \in Services |-> NoOutcome]

NextRoute ==
    \/ RouteBadRequest
    \/ routePc = "google" /\ returned["fetchGoogleAdsData"] = NoOutcome /\ CallGoogleAds
    \/ \E ok \in BOOLEAN : GoogleQuerySettles(ok)
    \/ RouteGoogleSettled
    \/ routePc = "facebook" /\ returned["fetchFacebookAdsData"] = NoOutcome /\ CallFacebookAds
    \/ \E ok, active \in BOOLEAN : AccountStatusSettles(ok, active)
    \/ \E ok, hasBody \in BOOLEAN : InsightsSettles(ok, hasBody)
    \/ RouteFacebookSettled
    \/ RouteRespond

SpecRoute == InitRoute /\ [][NextRoute]_vars

\* Overlapping invocations on two keys, with expiry and a full clear.
Next ==
    \/ \E c \in Slots, key \in Keys, ttl \in {1}, r \in {1}, f \in BOOLEAN :
            Start(c, key, ttl, r, f)
    \/ \E c \in Slots, data \in Payloads : RespondOk(c, data, 0)
    \/ \E c \in Slots, s \in {404, 500} : RespondFail(c, s, 0)
    \/ \E c \in Slots : TimerFires(c)
    \/ \E c \in Slots : Release(c)
    \/ Tick
    \/ ClearApiCache(NoPattern)

Spec == Init /\ [][Next]_vars

\* ------------------------------------------------------------------ claims
\* the error classes the retry policy speaks of
Retryable(status) == status = NoStatus \/ status = 429 \/ status >= 500
FailFast(status) == status >= 400 /\ status <= 499 /\ status # 429

\* C1: a call with forceRefresh=false whose key has a stored entry that is
\* not expired returns that entry's payload at once, with no network call
\* and no backoff wait, and leaves the cache as it was; so the second of
\* two sequential calls inside the TTL window adds no network call.
C1_LiveEntryServedWithoutNetwork ==
    [][\A c \in Slots :
        LET k == calls'[c].key IN
        (/\ calls[c].pc = "idle" /\ calls'[c].pc # "idle"
         /\ ~calls'[c].force
         /\ cache[k] # NoEntry /\ cache[k].expiry > now)
        => /\ calls'[c].pc = "returned"
           /\ calls'[c].result = cache[k].data
           /\ calls'[c].netCalls = 0
           /\ calls'[c].waits = 0
           /\ cache' = cache]_vars

\* a second call was served from the entry the first call stored
C1_Witness ==
    \E c \in Slots :
        /\ calls[c].pc = "returned" /\ calls[c].hit /\ calls[c].netCalls = 0
        /\ cache[calls[c].key] # NoEntry
        /\ calls[c].result = lastOk[calls[c].key]

\* C2: a call with forceRefresh=true always issues a network call, whether
\* or not a live entry exists, never answers from the cache, and when it
\* returns the entry of its key holds the new response.
C2_ForceRefreshAlwaysFetches ==
    \A c \in Slots :
        (calls[c].pc # "idle" /\ calls[c].force)
        => /\ calls[c].netCalls >= 1
           /\ ~calls[c].hit
           /\ (calls[c].pc = "returned" =>
                 /\ cache[calls[c].key] # NoEntry
                 /\ cache[calls[c].key].data = calls[c].result)

\* C3: with maxRetries = n >= 1, a call whose attempts all fail with a
\* retryable error makes exactly n attempts (never more than n while it
\* runs) and rejects with the error of the n-th attempt.
C3_RetryCeiling ==
    \A c \in Slots :
        calls[c].maxRetries >= 1 =>
            /\ calls[c].netCalls <= calls[c].maxRetries
            /\ (calls[c].pc = "rejected" /\ Retryable(calls[c].lastError.status))
               => /\ calls[c].netCalls = calls[c].maxRetries
                  /\ calls[c].lastError.att = calls[c].maxRetries

\* three attempts, all failed with 500, then the rejection
C3_Witness ==
    \E c \in Slots :
        /\ calls[c].pc = "rejected" /\ calls[c].maxRetries = 3
        /\ calls[c].netCalls = 3 /\ calls[c].waits = 3
        /\ calls[c].lastError = [status |-> 500, att |-> 3]

\* C4: once an attempt has failed with a status in 400..499 other than 429
\* the call is rejected with that error, with no further attempt and no
\* backoff wait after it; a 404 on the first attempt is the only attempt.
C4_FailFastOnClientError ==
    \A c \in Slots :
        FailFast(calls[c].lastError.status)
        => /\ calls[c].pc = "rejected"
           /\ calls[c].netCalls = calls[c].lastError.att
           /\ calls[c].waits = calls[c].lastError.att - 1

\* a 404 on the first attempt of a call with maxRetries = 5
C4_Witness ==
    \E c \in Slots :
        /\ calls[c].pc = "rejected" /\ calls[c].maxRetries = 5
        /\ calls[c].lastError = [status |-> 404, att |-> 1]
        /\ calls[c].netCalls = 1 /\ calls[c].waits = 0

\* C5: what the caller observes is a final success or the last failure: a
\* call that returns after k attempts returns the payload of attempt k,
\* k <= maxRetries, and a call that rejects rejects with the error of the
\* last attempt it made.
C5_CallerSeesSuccessOrLastFailure ==
    \A c \in Slots :
        /\ (calls[c].pc = "returned" /\ ~calls[c].hit)
           => /\ calls[c].result = lastOk[calls[c].key]
              /\ calls[c].result # NoPayload
              /\ calls[c].netCalls = calls[c].attempt + 1
              /\ calls[c].netCalls <= calls[c].maxRetries
        /\ calls[c].pc = "rejected"
           => /\ calls[c].lastError # NoError
              /\ calls[c].lastError.att = calls[c].netCalls

\* C6: an entry is written only by the step in which a network response
\* succeeds: every step that puts a new or changed entry under a key is the
\* step in which a call on that key returns the payload it got from the
\* network; a cache hit and a rejected call have written nothing.
C6_WritesOnlyOnNetworkSuccess ==
    [][/\ \A k \in Keys :
            (cache'[k] # NoEntry /\ cache'[k] # cache[k])
            => \E c \in Slots :
                /\ calls[c].pc = "inflight" /\ calls'[c].pc = "returned"
                /\ calls[c].key = k
                /\ ~calls'[c].hit
                /\ cache'[k].data = calls'[c].result
       /\ \A c \in Slots :
            (calls'[c].pc = "rejected" \/ calls'[c].hit) => calls'[c].writes = 0]_vars

\* a call was rejected while another call's entry is stored
C6_Witness ==
    \E c \in Slots, k \in Keys :
        /\ calls[c].pc = "rejected" /\ calls[c].netCalls >= 1
        /\ calls[c].key = k /\ cache[k] # NoEntry

\* C7: for ttl > 0 the entry stored at clock value t expires at t + ttl: a
\* read (a call with forceRefresh=false) strictly before the entry's expiry
\* is a hit that returns its payload, and a read at or after the expiry is
\* no hit and removes the entry within that same step.
C7_TtlWindow ==
    [][\A c \in Slots :
        /\ (calls[c].pc = "inflight" /\ calls'[c].pc = "returned" /\ calls[c].ttl > 0)
           => cache'[calls[c].key].expiry = now + calls[c].ttl
        /\ LET k == calls'[c].key IN
           (/\ calls[c].pc = "idle" /\ calls'[c].pc # "idle"
            /\ ~calls'[c].force /\ cache[k] # NoEntry)
           => IF now < cache[k].expiry
              THEN calls'[c].hit /\ calls'[c].result = cache[k].data
              ELSE ~calls'[c].hit /\ calls'[c].pc # "returned"
                   /\ calls'[c].result = NoPayload
                   /\ cache'[k] = NoEntry]_vars

\* a read at exactly the expiry of an entry stored with ttl > 0 has evicted it
C7_Witness ==
    \E c \in Slots :
        /\ calls[c].pc = "inflight" /\ calls[c].evicted
        /\ cache[calls[c].key] = NoEntry
        /\ now = MaxTTL

\* C8: no stored entry has an expiry earlier than its timestamp, for every
\* ttl >= 0 and however the clock advances between the two clock reads.
C8_ExpiryNotBeforeTimestamp ==
    \A k \in Keys :
        cache[k] # NoEntry => cache[k].expiry >= cache[k].timestamp

\* C9: whenever a key has an entry, its payload is that of the most
\* recently completed successful network response for that key.
C9_EntryIsLatestResponse ==
    \A k \in Keys : cache[k] # NoEntry => cache[k].data = lastOk[k]

\* two overlapping calls on one key both got a response, with different
\* payloads, and the entry holds the later one
C9_Witness ==
    \E k \in Keys :
        /\ calls["s1"].pc = "returned" /\ calls["s2"].pc = "returned"
        /\ calls["s1"].key = k /\ calls["s2"].key = k
        /\ calls["s1"].writes = 1 /\ calls["s2"].writes = 1
        /\ calls["s1"].result # calls["s2"].result
        /\ cache[k] # NoEntry /\ cache[k].data = calls["s1"].result

\* C10: clearApiCache without a pattern leaves the cache empty and returns
\* the number of entries stored immediately before the call.
C10_FullClearReturnsPriorSize ==
    [][ClearApiCache(NoPattern)
       => /\ \A k \in Keys : cache'[k] = NoEntry
          /\ cleared' = Cardinality({k \in Keys : cache[k] # NoEntry})]_vars

\* a full clear has removed two entries
C10_Witness ==
    /\ cleared = Cardinality(Keys)
    /\ \A k \in Keys : cache[k] = NoEntry /\ lastOk[k] # NoPayload

\* C11: clearApiCache with a pattern removes exactly the stored entries
\* whose key the pattern matches, leaves every other entry as it was
\* (payload, expiry, timestamp), and returns the number it removed.
C11_PatternClearRemovesExactlyMatches ==
    [][\A p \in Patterns \ {NoPattern} :
        ClearApiCache(p) =>
            LET gone == {k \in Keys : cache[k] # NoEntry /\ Matches(p, k)} IN
            /\ \A k \in gone : cache'[k] = NoEntry
            /\ \A k \in Keys \ gone : cache'[k] = cache[k]
            /\ cleared' = Cardinality(gone)]_vars

\* one of two stored entries was removed, the other is still stored
C11_Witness ==
    /\ cleared = 1
    /\ cache[<<"g", "a">>] = NoEntry /\ lastOk[<<"g", "a">>] # NoPayload
    /\ cache[<<"f", "b">>] # NoEntry

\* C12: getApiCacheStats is a pure read: it leaves the cache as it is, does
\* not evict expired entries, and counts them in totalEntries.
C12_StatsIsPureRead ==
    [][(GetApiCacheStats \/ stats' # stats)
       => /\ cache' = cache
          /\ stats'.totalEntries = Cardinality({k \in Keys : cache[k] # NoEntry})
          /\ stats'.keys = {k \in Keys : cache'[k] # NoEntry}]_vars

\* statistics counted an expired entry, and the entry is still stored
C12_Witness ==
    \E k \in Keys :
        /\ cache[k] # NoEntry /\ cache[k].expiry < now
        /\ k \in stats.keys
        /\ stats.expiredEntries >= 1 /\ stats.totalEntries >= 1

\* C13: expiredEntries is the number of stored entries a read would treat
\* as expired, those with now >= expiry, at every clock value.
C13_ExpiredCountAgreesWithRead ==
    [][GetApiCacheStats
       => stats'.expiredEntries =
            Cardinality({k \in Keys : cache[k] # NoEntry /\ now >= cache[k].expiry})]_vars

\* the dates of a series, the rows of a series as a set, and the last row
\* a series holds for a date
DatesOf(series) == {series[i].Date : i \in DOMAIN series}
LastRowFor(series, date) ==
    series[CHOOSE i \in DOMAIN series :
              /\ series[i].Date = date
              /\ \A j \in DOMAIN series : series[j].Date = date => j <= i]
Merged == routePc = "done"
DailyData == combinedData.dailyData

\* C14: every date of either input series appears exactly once in dailyData
\* and no other date does; an entry whose date only one series has carries
\* the zero strings '0' and '$0.00' in the other platform's fields; series
\* with no date in common and no date repeated give |A| + |B| entries.
C14_EveryDateOnceWithZeroDefaults ==
    Merged =>
        /\ DatesOf(DailyData) = DatesOf(googleAdsData) \cup DatesOf(facebookAdsData)
        /\ \A i, j \in DOMAIN DailyData : DailyData[i].Date = DailyData[j].Date => i = j
        /\ \A i \in DOMAIN DailyData :
              DailyData[i].Date \notin DatesOf(facebookAdsData) =>
                  /\ DailyData[i].Facebook_Clicks = <<"0">>
                  /\ DailyData[i].Facebook_Impressions = <<"0">>
                  /\ DailyData[i].Facebook_CPC = <<"$", "0", ".", "0", "0">>
                  /\ DailyData[i].Facebook_Cost = <<"$", "0", ".", "0", "0">>
        /\ \A i \in DOMAIN DailyData :
              DailyData[i].Date \notin DatesOf(googleAdsData) =>
                  /\ DailyData[i].Google_Clicks = <<"0">>
                  /\ DailyData[i].Google_Impressions = <<"0">>
                  /\ DailyData[i].Google_CPC = <<"$", "0", ".", "0", "0">>
                  /\ DailyData[i].Google_Cost = <<"$", "0", ".", "0", "0">>
        /\ ( /\ DatesOf(googleAdsData) \cap DatesOf(facebookAdsData) = {}
             /\ Cardinality(DatesOf(googleAdsData)) = Len(googleAdsData)
             /\ Cardinality(DatesOf(facebookAdsData)) = Len(facebookAdsData) )
           => Len(DailyData) = Len(googleAdsData) + Len(facebookAdsData)

\* two Google days and one Facebook day, no date in common, merged into three
C14_Witness ==
    /\ Merged
    /\ Len(googleAdsData) = 2 /\ Len(facebookAdsData) = 1
    /\ DatesOf(googleAdsData) \cap DatesOf(facebookAdsData) = {}
    /\ Len(DailyData) = 3
    /\ \E i \in DOMAIN DailyData : DailyData[i].Facebook_Clicks = <<"0">>
    /\ \E i \in DOMAIN DailyData : DailyData[i].Google_Cost = <<"$", "0", ".", "0", "0">>

ClicksFor(series, date) ==
    IF date \in DatesOf(series) THEN DigitsValue(LastRowFor(series, date).Clicks) ELSE 0
RECURSIVE SumClicks(_)
SumClicks(dates) ==
    IF dates = {} THEN 0
    ELSE LET d == CHOOSE x \in dates : TRUE
         IN  ClicksFor(googleAdsData, d) + ClicksFor(facebookAdsData, d)
                + SumClicks(dates \ {d})

C16_StrictlyAscendingDates ==
    Merged =>
        \A i, j \in DOMAIN DailyData :
            i < j =>
                /\ DateTime(DailyData[i].Date) # NotANumber
                /\ DateTime(DailyData[j].Date) # NotANumber
                /\ DateTime(DailyData[i].Date) < DateTime(DailyData[j].Date)

\* "0.00%" and "$0.00"
ZeroPercent == <<"0", ".", "0", "0", "%">>
ZeroDollars == <<"$", "0", ".", "0", "0">>

\* C17: a rate whose denominator total is 0 is the zero sentinel, 0.00% for
\* a click-through rate and $0.00 for a cost per click.
C17_ZeroDenominatorGivesZero ==
    Merged =>
        LET t == combinedData.totals
            m == combinedData.metrics
        IN  /\ t.Google_Impressions = 0 => m.Google_CTR = ZeroPercent
            /\ t.Facebook_Impressions = 0 => m.Facebook_CTR = ZeroPercent
            /\ t.Total_Impressions = 0 => m.Overall_CTR = ZeroPercent
            /\ t.Google_Clicks = 0 => m.Google_Avg_CPC = ZeroDollars
            /\ t.Facebook_Clicks = 0 => m.Facebook_Avg_CPC = ZeroDollars
            /\ t.Total_Clicks = 0 => m.Overall_Avg_CPC = ZeroDollars

\* the number a field's text stands for once every ',' and '$' is taken
\* out; an amount is read in cents
NumericValue(text) == DigitsValue(SelectSeq(text, IsDigit))
RECURSIVE SumField(_, _)
SumField(days, field) ==
    IF days = << >> THEN 0
    ELSE NumericValue(Head(days)[field]) + SumField(Tail(days), field)

CalendarDates == {"Thu, Jan 30, 2025", "Fri, Jan 31, 2025", "Sat, Feb 1, 2025"}

\* C19: no formatted record and no merged entry is keyed by anything but a
\* calendar date: a row whose date is missing or unparseable fails its
\* series instead.
C19_NoRecordUnderPlaceholderDate ==
    /\ \A i \in DOMAIN googleAdsData : googleAdsData[i].Date \in CalendarDates
    /\ \A i \in DOMAIN facebookAdsData : facebookAdsData[i].Date \in CalendarDates
    /\ Merged => \A i \in DOMAIN DailyData : DailyData[i].Date \in CalendarDates

\* C20: a service call during which the request for the real data failed
\* rejects unless USE_MOCK_DATA_FALLBACK is on, and a value that comes from
\* a mock generator always carries mock: true.
C20_NoSilentMockData ==
    \A f \in Services :
        /\ (returned[f].erred /\ ~env.USE_MOCK_DATA_FALLBACK)
              => returned[f].state = "rejected"
        /\ returned[f].source = "mock" => returned[f].mock

\* the fetches the handler caught failing, read from how the calls settled
FailedFetches ==
    {f \in {"fetchGoogleAdsData", "fetchFacebookAdsData"} : returned[f].state = "rejected"}
Responded == routePc = "responded" /\ response.status # 400

AttemptsInFlight(call) ==
    call.netCalls - call.attempt - (IF call.pc = "returned" /\ ~call.hit THEN 1 ELSE 0)

\* C22: a call never has two attempts in flight, and a step that starts an
\* attempt is either the call's first step or the end of the backoff wait
\* that followed the failure of the attempt before it.
C22_AttemptsAreSequential ==
    [][\A c \in Slots :
        /\ AttemptsInFlight(calls'[c]) <= 1
        /\ (calls'[c].pc = "inflight" /\ calls'[c] # calls[c])
           => \/ calls[c].pc = "idle" /\ calls'[c].netCalls = 1
              \/ /\ calls[c].pc = "backoff"
                 /\ calls[c].attempt = calls[c].netCalls
                 /\ calls[c].waits = calls[c].netCalls
                 /\ calls'[c].netCalls = calls[c].netCalls + 1]_vars

\* the second attempt is in flight after one failure and one wait
C22_Witness ==
    \E c \in Slots :
        /\ calls[c].pc = "inflight" /\ calls[c].netCalls = 2
        /\ calls[c].attempt = 1 /\ calls[c].waits = 1

\* C23: the wait after the failed attempt number k lasts
\* min(retryDelay * 2^(k-1) + jitter, 30000) ms for a jitter in 0..200: it
\* is never above 30000, and below 30000 it is at least retryDelay * 2^(k-1).
C23_BackoffDelayBounds ==
    \A c \in Slots :
        calls[c].pc = "backoff" =>
            LET base == calls[c].retryDelay * 2 ^ (calls[c].attempt - 1) IN
            /\ calls[c].delay <= 30000
            /\ calls[c].delay < 30000 => calls[c].delay >= base
            /\ \E jitter \in 0..200 :
                  calls[c].delay = IF base + jitter < 30000 THEN base + jitter ELSE 30000

\* a wait cut to the cap: retryDelay 16000, second failure
C23_Witness ==
    \E c \in Slots :
        /\ calls[c].pc = "backoff" /\ calls[c].attempt = 2
        /\ calls[c].retryDelay = 16000 /\ calls[c].delay = 30000

\* C24: a call that rejects rejects with the error of a network attempt it
\* made, never with null, for every maxRetries.
C24_RejectsWithAnAttemptsError ==
    \A c \in Slots :
        calls[c].pc = "rejected" =>
            /\ calls[c].netCalls >= 1
            /\ calls[c].lastError # NoError
            /\ calls[c].lastError.att \in 1..calls[c].netCalls

\* C25: a step of an invocation on key k leaves the entry of every other
\* key and the locals of every other invocation as they were, under every
\* interleaving: what an invocation reads (its locals and the entry of its
\* own key) is out of reach of invocations on other keys.
C25_OtherKeysUntouched ==
    [][\A c \in Slots :
        (calls'[c] # calls[c] /\ calls'[c].pc # "idle")
        => /\ \A k2 \in Keys \ {calls'[c].key} : cache'[k2] = cache[k2]
           /\ \A c2 \in Slots \ {c} : calls'[c2] = calls[c2]]_vars

\* two overlapping invocations on different keys both returned, each
\* key's entry holding its own response
C25_Witness ==
    \E c1, c2 \in Slots :
        /\ calls[c1].key # calls[c2].key
        /\ calls[c1].pc = "returned" /\ calls[c2].pc = "returned"
        /\ calls[c1].netCalls = 1 /\ calls[c2].netCalls = 1
        /\ calls[c1].result # calls[c2].result
        /\ cache[calls[c1].key] # NoEntry /\ cache[calls[c1].key].data = calls[c1].result
        /\ cache[calls[c2].key] # NoEntry /\ cache[calls[c2].key].data = calls[c2].result

\* C27: a call with forceRefresh=false and maxRetries >= 1 that starts
\* while its key has no live entry issues its own network call even if
\* another call for the key is in flight; each call that gets a response
\* writes it to the key's entry, so the entry holds the response that
\* completed last.
C27_NoCoalescing ==
    [][\A c \in Slots :
        /\ LET k == calls'[c].key IN
           (/\ calls[c].pc = "idle" /\ calls'[c].pc # "idle"
            /\ ~calls'[c].force /\ calls'[c].maxRetries >= 1
            /\ (cache[k] = NoEntry \/ cache[k].expiry <= now))
           => calls'[c].pc = "inflight" /\ calls'[c].netCalls = 1
        /\ (calls[c].pc = "inflight" /\ calls'[c].pc = "returned")
           => /\ calls'[c].writes = 1
              /\ cache'[calls[c].key].data = calls'[c].result
              /\ lastOk'[calls[c].key] = calls'[c].result]_vars

\* two unforced calls for one key were in flight together; both wrote, and
\* the entry holds the payload of one while the other returned another
C27_Witness ==
    \E c1, c2 \in Slots :
        /\ c1 # c2 /\ calls[c1].key = calls[c2].key
        /\ ~calls[c1].force /\ ~calls[c2].force
        /\ calls[c1].pc = "returned" /\ calls[c2].pc = "returned"
        /\ ~calls[c1].hit /\ ~calls[c2].hit
        /\ calls[c1].writes = 1 /\ calls[c2].writes = 1
        /\ calls[c1].result # calls[c2].result
        /\ cache[calls[c1].key] # NoEntry
        /\ cache[calls[c1].key].data = calls[c2].result

\* C28: no step of a call with forceRefresh=true up to and including its
\* rejection changes the entry stored for its key (payload, expiry and
\* timestamp stay), and a call with forceRefresh=false that starts before
\* the expiry of the key's entry returns that entry's payload without a
\* network call.
C28_ForcedFailureKeepsEntry ==
    [][\A c \in Slots :
        LET k == calls'[c].key IN
        /\ (/\ calls'[c] # calls[c] /\ calls'[c].force
            /\ calls'[c].pc \in {"inflight", "backoff", "rejected"})
           => cache'[k] = cache[k]
        /\ (/\ calls[c].pc = "idle" /\ calls'[c].pc # "idle"
            /\ ~calls'[c].force
            /\ cache[k] # NoEntry /\ now < cache[k].expiry)
           => /\ calls'[c].pc = "returned" /\ calls'[c].hit
              /\ calls'[c].netCalls = 0
              /\ calls'[c].result = cache[k].data
              /\ cache'[k] = cache[k]]_vars

\* a forced call was rejected and the key's entry is still there and live;
\* an unforced call for the key was served from it
C28_Witness ==
    \E c1, c2 \in Slots :
        /\ calls[c1].pc = "rejected" /\ calls[c1].force
        /\ calls[c1].netCalls = 1
        /\ calls[c2].pc = "returned" /\ ~calls[c2].force /\ calls[c2].hit
        /\ calls[c2].key = calls[c1].key /\ calls[c2].netCalls = 0
        /\ cache[calls[c1].key] # NoEntry
        /\ now < cache[calls[c1].key].expiry
        /\ calls[c2].result = cache[calls[c1].key].data

\* C29: every attempt that fails with a retryable error is followed by a
\* backoff wait, the last permitted one included: a call rejected with a
\* retryable error has made maxRetries attempts and maxRetries waits and is
\* rejected when the last wait ends; a fail-fast failure is followed by no
\* wait.
C29_WaitAfterEveryRetryableFailure ==
    [][\A c \in Slots :
        /\ (calls[c].pc = "inflight" /\ calls'[c].pc \in {"backoff", "rejected"})
           => /\ Retryable(calls'[c].lastError.status)
                 => /\ calls'[c].pc = "backoff"
                    /\ calls'[c].waits = calls[c].waits + 1
                    /\ calls'[c].waits = calls'[c].netCalls
              /\ FailFast(calls'[c].lastError.status)
                 => /\ calls'[c].pc = "rejected"
                    /\ calls'[c].waits = calls[c].waits
                    /\ calls'[c].waits = calls'[c].netCalls - 1
        /\ (/\ calls[c].pc # "rejected" /\ calls'[c].pc = "rejected"
            /\ Retryable(calls'[c].lastError.status))
           => /\ calls[c].pc = "backoff"
              /\ calls'[c].netCalls = calls'[c].maxRetries
              /\ calls'[c].waits = calls'[c].maxRetries]_vars

\* two attempts failed with 429 and the call was rejected after two waits
C29_Witness ==
    \E c \in Slots :
        /\ calls[c].pc = "rejected" /\ calls[c].maxRetries = 2
        /\ calls[c].lastError = [status |-> 429, att |-> 2]
        /\ calls[c].netCalls = 2 /\ calls[c].waits = 2

\* C26: if every network attempt settles and every backoff timer fires, a
\* call that is waiting for either eventually returns a payload or rejects,
\* having made at most maxRetries network attempts.
C26_EveryCallCompletes ==
    \A c \in Slots :
        (calls[c].pc \in {"inflight", "backoff"})
        ~> (/\ calls[c].pc \in {"returned", "rejected"}
            /\ calls[c].netCalls <= calls[c].maxRetries)

\* a call returned the payload of its fourth and last permitted attempt,
\* after three failures and three waits
C26_Witness ==
    \E c \in Slots :
        /\ calls[c].pc = "returned" /\ calls[c].maxRetries = 4
        /\ calls[c].netCalls = 4 /\ calls[c].waits = 3

\* the clicks of the last row a series has for each of the dates
RECURSIVE SumLastClicks(_, _)
SumLastClicks(series, dates) ==
    IF dates = {} THEN 0
    ELSE LET d == CHOOSE x \in dates : TRUE
         IN  ClicksFor(series, d) + SumLastClicks(series, dates \ {d})

\* C30: there is one entry per date even when one series has several rows
\* for the date: the entry carries, for each platform, the values of the
\* last row that platform's series has for the date, and each platform's
\* clicks total counts every date once, with the clicks of that last row.
C30_LastRowOfADateWins ==
    Merged =>
        /\ \A i, j \in DOMAIN DailyData : DailyData[i].Date = DailyData[j].Date => i = j
        /\ \A i \in DOMAIN DailyData :
              LET date == DailyData[i].Date IN
              /\ date \in DatesOf(googleAdsData) =>
                    LET a == LastRowFor(googleAdsData, date)
                    IN  /\ DailyData[i].Google_Clicks = a.Clicks
                        /\ DailyData[i].Google_Impressions = a.Impressions
                        /\ DailyData[i].Google_CPC = a.Avg_CPC
                        /\ DailyData[i].Google_Cost = a.Cost
              /\ date \in DatesOf(facebookAdsData) =>
                    LET b == LastRowFor(facebookAdsData, date)
                    IN  /\ DailyData[i].Facebook_Clicks = b.Clicks
                        /\ DailyData[i].Facebook_Impressions = b.Impressions
                        /\ DailyData[i].Facebook_CPC = b.Avg_CPC
                        /\ DailyData[i].Facebook_Cost = b.Cost
        /\ combinedData.totals.Google_Clicks =
              SumLastClicks(googleAdsData, DatesOf(googleAdsData))
        /\ combinedData.totals.Facebook_Clicks =
              SumLastClicks(facebookAdsData, DatesOf(facebookAdsData))

\* the Google series has two rows for one date, with 10 clicks and then 7:
\* one entry with 7 clicks, and a Google clicks total of 7, not 17
C30_Witness ==
    /\ Merged
    /\ Len(googleAdsData) = 2
    /\ googleAdsData[1].Date = googleAdsData[2].Date
    /\ googleAdsData[1].Clicks = <<"1", "0">>
    /\ googleAdsData[2].Clicks = <<"7">>
    /\ Len(DailyData) = 1
    /\ DailyData[1].Google_Clicks = <<"7">>
    /\ combinedData.totals.Google_Clicks = 7

====
